---- MODULE Spec2Model ----
(***************************************************************************)
(* The OSC bridging daemon of src/osc_daemon.py (class AbletonOSCDaemon)   *)
(* as a state machine.                                                     *)
(*                                                                         *)
(* The daemon runs on one asyncio event loop.  A step of the model is one  *)
(* callback of the loop run to its next suspension point: a connection     *)
(* handler from the return of reader.read() to its next await that         *)
(* suspends, the datagram callback _handle_ableton_message, the expiry of  *)
(* the timer of asyncio.wait_for, and the wake-up of a handler whose       *)
(* future was completed or cancelled.  asyncio.Lock.acquire() on a free    *)
(* lock and StreamWriter.drain() below the high-water mark do not suspend, *)
(* so they are inside a step.                                              *)
(*                                                                         *)
(* OSC addresses are sequences of characters, OSC argument values are      *)
(* tokens (strings naming the value), an absent field is the empty         *)
(* sequence and a present one a one-element sequence.                      *)
(***************************************************************************)
EXTENDS Integers, Sequences, FiniteSets, TLC

(* ------------------------------ bounds -------------------------------- *)

\* Number of command-channel connections the clients open.
NConn == 2
\* Frames the general client (connection 1) writes on its connection.
MaxCmds == 2
\* Frames each other client writes on its connection.
MaxPeerCmds == 1
\* Clock ticks in one response_timeout window.
TimeoutTicks == 2
\* Calls of AbletonClient.send_command.
MaxCalls == 3

Conns == 1..NConn

(* ----------------------------- addresses ------------------------------ *)

\* "/live/test"
AddrTest == <<"/","l","i","v","e","/","t","e","s","t">>
\* "/live/song/get/tempo"
AddrTempo == <<"/","l","i","v","e","/","s","o","n","g","/","g","e","t","/","t","e","m","p","o">>
\* "/live/song/stop_playing"
AddrStop == <<"/","l","i","v","e","/","s","o","n","g","/","s","t","o","p","_","p","l","a","y","i","n","g">>

RESPONSE_PREFIXES ==
    { <<"/","l","i","v","e","/","d","e","v","i","c","e","/","g","e","t">>,
      <<"/","l","i","v","e","/","s","c","e","n","e","/","g","e","t">>,
      <<"/","l","i","v","e","/","v","i","e","w","/","g","e","t">>,
      <<"/","l","i","v","e","/","c","l","i","p","/","g","e","t">>,
      <<"/","l","i","v","e","/","c","l","i","p","_","s","l","o","t","/","g","e","t">>,
      <<"/","l","i","v","e","/","t","r","a","c","k","/","g","e","t">>,
      <<"/","l","i","v","e","/","s","o","n","g","/","g","e","t">>,
      <<"/","l","i","v","e","/","a","p","i","/","g","e","t">>,
      <<"/","l","i","v","e","/","a","p","p","l","i","c","a","t","i","o","n","/","g","e","t">>,
      <<"/","l","i","v","e","/","t","e","s","t">>,
      <<"/","l","i","v","e","/","e","r","r","o","r">> }

\* str.startswith(prefix)
StartsWith(s, p) == Len(p) <= Len(s) /\ SubSeq(s, 1, Len(p)) = p

\* A routing that compares the whole address with the prefixes.
ExpectsResponseExact(address) == address \in RESPONSE_PREFIXES

\* A routing that treats every address as response-bearing.
ExpectsResponseAlways(address) == TRUE

\* _expects_response: address.startswith(RESPONSE_PREFIXES)
ExpectsResponse(address) == \E p \in RESPONSE_PREFIXES : StartsWith(address, p)

\* Addresses the clients put in send_message commands.
CmdAddrs == {AddrTest, AddrTempo, AddrStop}
\* Addresses of the datagrams the remote application sends.
DgramAddrs == {AddrTest, AddrTempo, AddrStop}

(* --------------------------- OSC arguments ---------------------------- *)

\* A bytes value (an OSC blob): json.dumps cannot encode it.
BlobValues == {"b'\\x00'"}
\* Argument lists of inbound datagrams.
DgramArgs == { <<"1", "2">>, <<"b'\\x00'">> }

(* ------------------------------ frames -------------------------------- *)
\* What a client writes in one sendall().  text: "object" (a JSON object),
\* "nonobject" (valid JSON that is not an object), "badjson" (not JSON),
\* "badutf8" (bytes that are not UTF-8).  atype: the address is "missing"
\* (absent or null), a "str", a non-string "falsy" value (0, [], false) or
\* a non-string "truthy" value (5, [1], {"a": 1}).
Frame(text, command, atype, address) ==
    [text |-> text, command |-> command, atype |-> atype, address |-> address]

SendMessage(address) == Frame("object", "send_message", "str", address)

ClientFrames ==
    { SendMessage(a) : a \in CmdAddrs \cup {<<>>} }
    \cup { Frame("object", "send_message", t, <<>>) : t \in {"missing", "falsy", "truthy"} }
    \cup { Frame("object", k, "missing", <<>>) : k \in {"get_status", "ping", "bogus", "None"} }
    \cup { Frame(t, "None", "missing", <<>>) : t \in {"nonobject", "badjson", "badutf8"} }

\* Connection 1 is a general client: it writes any frame and may close its
\* socket.  The other connections are clients that stay connected and write
\* send_message commands for response-bearing addresses.
FramesOf(c) ==
    IF c = 1 THEN ClientFrames
    ELSE { SendMessage(a) : a \in { x \in CmdAddrs : ExpectsResponse(x) } }
Quota(c) == IF c = 1 THEN MaxCmds ELSE MaxPeerCmds
MayClose(c) == c = 1

(* ----------------------------- responses ------------------------------ *)

Config == [ableton_host |-> "127.0.0.1", ableton_port |-> 11000,
           receive_port |-> 11001, socket_port |-> 65432]

Resp(status, message, address, data) ==
    [status |-> status, message |-> message, address |-> address, data |-> data,
     about |-> "", info |-> <<>>]

SuccessResp(address, args) == Resp("success", "", <<address>>, <<args>>)
TimeoutResp(address) == Resp("error", "Timeout waiting for response to ", <<address>>, <<>>)
SendErrorResp(address) == Resp("error", "Error sending OSC message: ", <<address>>, <<>>)
SentResp(address) == Resp("sent", "", <<address>>, <<>>)
MissingResp == Resp("error", "Missing OSC address", <<>>, <<>>)
PongResp == Resp("ok", "pong", <<>>, <<>>)
StatusResp == [Resp("ok", "", <<>>, <<>>) EXCEPT !.about = "running", !.info = <<Config>>]
UnknownResp(command) == [Resp("error", "Unknown command: ", <<>>, <<>>) EXCEPT !.about = command]
InvalidJsonResp == Resp("error", "Invalid JSON: ", <<>>, <<>>)

\* json.dumps(response) raises TypeError on a bytes value.
JsonSerializable(resp) ==
    \A i \in 1..Len(resp.data) : \A j \in 1..Len(resp.data[i]) : resp.data[i][j] \notin BlobValues

(* ------------------------------- state -------------------------------- *)

VARIABLES
    inbox,              \* per connection: frames written by the client, not yet read
    copen,              \* per connection: the client has not closed its socket
    nsent,              \* per connection: frames the client has written
    hpc,                \* per connection: where _handle_socket_client is suspended
    nread,              \* per connection: reads that returned data
    nresp,              \* per connection: responses written
    last,               \* per connection: the outbound datagrams and the response of the latest read
    cur,                \* per connection: the suspended _send_osc_with_response call
    pending_responses,  \* self.pending_responses: address -> future
    futures,            \* the asyncio.Future objects still referenced
    response_lock,      \* self._response_lock is held
    dpc,                \* where the daemon is: start(), serving, stopped, exited
    osc_server,         \* self.osc_server: the datagram receive endpoint
    tcp_server,         \* self.tcp_server: the command-channel listener
    stale,              \* addresses for which the remote application's reply to a
                        \* command that has timed out is still on its way
    late,               \* connections whose pending future was completed by such a reply
    ableton_client,     \* the AbletonClient of the MCP server and its send_command call
    link                \* the TCP connection between ableton_client.sock and the daemon

vars == <<inbox, copen, nsent, hpc, nread, nresp, last, cur, pending_responses, futures,
          response_lock, dpc, osc_server, tcp_server, stale, late, ableton_client, link>>

\* The daemon's servers.
daemon == <<dpc, osc_server, tcp_server>>

\* The record of the replies of the remote application that come too late.
\* It is kept by the specification SpecAttribution only.
replies == <<stale, late>>

\* The MCP server's client of the daemon and its connection.  They are
\* used by the specification SpecClient only.
mcp == <<ableton_client, link>>

\* A call of send_command that has not returned.
NoReturn == [kind |-> "none", of |-> <<>>]

\* AbletonClient.__init__: self.sock = None (0), self.connected = False.
\* socks: the sockets created so far; pc: where send_command is; call: the
\* calls of send_command begun; ret: what the latest call returned.
NewClient ==
    [sock |-> 0, connected |-> FALSE, socks |-> 0, pc |-> "idle", call |-> 0, ret |-> NoReturn]

\* No connection.  to_daemon: the requests written and not yet read by the
\* daemon, each the number of its call; from_daemon: the responses the
\* daemon wrote and the client has not read, each the requests of the read
\* it answers; open: the daemon has not closed its side.
NoLink == [to_daemon |-> <<>>, from_daemon |-> <<>>, open |-> FALSE]

EmptyMap == [x \in {} |-> 0]
Remove(m, k) == [x \in DOMAIN m \ {k} |-> m[x]]
Put(m, k, v) == [x \in DOMAIN m \cup {k} |-> IF x = k THEN v ELSE m[x]]
Range(m) == { m[x] : x \in DOMAIN m }

\* The entry of `last` for a read: the outbound datagrams sent for it and
\* the response written for it.
Entry(osc, resp) == [osc |-> osc, resp |-> resp]

\* cur[c] of a connection that is not inside _send_osc_with_response.
\* timer: the ticks left until the deadline of wait_for; fired: its timer
\* has run.  first, seen record what the receiver handled since the call
\* registered its future: the arguments of the first datagram for the
\* address handled before the deadline, and whether "none", "one" or
\* "many" datagrams for the address were handled.
NotWaiting == [address |-> <<>>, timer |-> 0, fired |-> FALSE, first |-> <<>>, seen |-> "none"]
Waiting(address) ==
    [address |-> address, timer |-> TimeoutTicks, fired |-> FALSE, first |-> <<>>, seen |-> "none"]

\* asyncio.Future()
NewFuture == [state |-> "pending", result |-> <<>>]
\* The future created by the command connection c is processing.
FutId(c) == <<c, nread[c]>>

\* The daemon serving: start() has bound both servers and the clients'
\* connections are accepted.
Init ==
    /\ inbox = [c \in Conns |-> <<>>]
    /\ copen = [c \in Conns |-> TRUE]
    /\ nsent = [c \in Conns |-> 0]
    /\ hpc = [c \in Conns |-> "read"]
    /\ nread = [c \in Conns |-> 0]
    /\ nresp = [c \in Conns |-> 0]
    /\ last = [c \in Conns |-> Entry(0, <<>>)]
    /\ cur = [c \in Conns |-> NotWaiting]
    /\ pending_responses = EmptyMap
    /\ futures = EmptyMap
    /\ response_lock = FALSE
    /\ dpc = "serving"
    /\ osc_server = "bound"
    /\ tcp_server = "listening"
    /\ stale = {}
    /\ late = {}
    /\ ableton_client = NewClient
    /\ link = NoLink

(* ------------------------------ clients ------------------------------- *)

\* A client writes one frame on its connection.
ClientSend(c, f) ==
    /\ UNCHANGED <<daemon, replies, mcp>>
    /\ copen[c]
    /\ hpc[c] \in {"read", "wait"}
    /\ nsent[c] < Quota(c)
    /\ f \in FramesOf(c)
    /\ inbox' = [inbox EXCEPT ![c] = Append(@, f)]
    /\ nsent' = [nsent EXCEPT ![c] = @ + 1]
    /\ UNCHANGED <<copen, hpc, nread, nresp, last, cur, pending_responses, futures, response_lock>>

\* A handler that cancels the wait of its command when its client goes.
FuturesCancelledOnClose(c) ==
    IF hpc[c] = "wait" /\ futures[<<c, nread[c]>>].state = "pending"
    THEN [futures EXCEPT ![<<c, nread[c]>>].state = "cancelled"]
    ELSE futures

\* The futures when the client of connection c has closed its socket.  A
\* handler suspended in `await self._process_command(message)` (line 255)
\* does not watch its reader: nothing cancels the wait of its command.
FuturesAfterClose(c) == futures

\* A client closes its socket.
ClientClose(c) ==
    /\ UNCHANGED <<daemon, replies, mcp>>
    /\ MayClose(c)
    /\ copen[c]
    /\ copen' = [copen EXCEPT ![c] = FALSE]
    /\ futures' = FuturesAfterClose(c)
    /\ UNCHANGED <<inbox, nsent, hpc, nread, nresp, last, cur, pending_responses, response_lock>>

(* --------------------------- command channel -------------------------- *)

\* data.decode('utf-8') and json.loads of the bytes of one read.  Frames
\* that reached the socket before the read are returned together, and the
\* text of two JSON documents is not a JSON document ("Extra data").
Decode(data) ==
    IF \E i \in 1..Len(data) : data[i].text = "badutf8" THEN "UnicodeDecodeError"
    ELSE IF Len(data) > 1 \/ data[1].text = "badjson" THEN "JSONDecodeError"
    ELSE "ok"

Plan(kind, resp, address) == [kind |-> kind, resp |-> resp, address |-> address]

\* A dispatch without the check of the address (lines 298-302 left out).
ProcessCommandUnchecked(message) ==
    IF message.text # "object" THEN Plan("raise", <<>>, <<>>)
    ELSE IF message.command = "send_message" THEN
        IF message.atype # "str" THEN Plan("raise", <<>>, <<>>)
        ELSE IF ExpectsResponse(message.address) THEN Plan("await", <<>>, message.address)
        ELSE Plan("forget", <<>>, message.address)
    ELSE IF message.command = "get_status" THEN Plan("return", <<StatusResp>>, <<>>)
    ELSE IF message.command = "ping" THEN Plan("return", <<PongResp>>, <<>>)
    ELSE Plan("return", <<UnknownResp(message.command)>>, <<>>)

\* A dispatch whose ping and get_status answer 'ok' only while no command
\* is pending.
ProcessCommandWhenIdle(message) ==
    IF message.text # "object" THEN Plan("raise", <<>>, <<>>)
    ELSE IF message.command = "send_message" THEN
        IF message.atype \in {"missing", "falsy"} \/ (message.atype = "str" /\ message.address = <<>>)
        THEN Plan("return", <<MissingResp>>, <<>>)
        ELSE IF message.atype # "str" THEN Plan("raise", <<>>, <<>>)
        ELSE IF ExpectsResponse(message.address) THEN Plan("await", <<>>, message.address)
        ELSE Plan("forget", <<>>, message.address)
    ELSE IF message.command \in {"get_status", "ping"} /\ pending_responses # EmptyMap
         THEN Plan("return", <<Resp("error", "busy", <<>>, <<>>)>>, <<>>)
    ELSE IF message.command = "get_status" THEN Plan("return", <<StatusResp>>, <<>>)
    ELSE IF message.command = "ping" THEN Plan("return", <<PongResp>>, <<>>)
    ELSE Plan("return", <<UnknownResp(message.command)>>, <<>>)

\* _process_command up to its return or its call of a send method.
\* "raise": message.get on a value that is no dict, or address.startswith
\* on a value that is no str, raises AttributeError.
ProcessCommand(message) ==
    IF message.text # "object" THEN Plan("raise", <<>>, <<>>)
    ELSE IF message.command = "send_message" THEN
        IF message.atype \in {"missing", "falsy"} \/ (message.atype = "str" /\ message.address = <<>>)
        THEN Plan("return", <<MissingResp>>, <<>>)
        ELSE IF message.atype # "str" THEN Plan("raise", <<>>, <<>>)
        ELSE IF ExpectsResponse(message.address) THEN Plan("await", <<>>, message.address)
        ELSE Plan("forget", <<>>, message.address)
    ELSE IF message.command = "get_status" THEN Plan("return", <<StatusResp>>, <<>>)
    ELSE IF message.command = "ping" THEN Plan("return", <<PongResp>>, <<>>)
    ELSE Plan("return", <<UnknownResp(message.command)>>, <<>>)

\* The body of the while loop from the bytes of a read to the dispatch.
Dispatch(data) ==
    IF Decode(data) = "UnicodeDecodeError" THEN Plan("raise", <<>>, <<>>)
    ELSE IF Decode(data) = "JSONDecodeError" THEN Plan("return", <<InvalidJsonResp>>, <<>>)
    ELSE ProcessCommand(data[1])

\* _send_osc_fire_and_forget; ok: osc_client.send_message did not raise.
SendOscFireAndForget(address, ok) ==
    IF ok THEN [resp |-> SentResp(address), osc |-> 1]
    ELSE [resp |-> SendErrorResp(address), osc |-> 0]

\* A registration that keeps the waiter an address already has.
RegisterIfAbsent(address, fid) ==
    IF address \in DOMAIN pending_responses THEN pending_responses
    ELSE Put(pending_responses, address, fid)

\* self.pending_responses[address] = future
Register(address, fid) == Put(pending_responses, address, fid)

\* An error path that leaves the map as it is.
ErrorCleanupNone(pend, address) == pend

\* lines 177-179: if address in self.pending_responses: del ...
ErrorCleanup(pend, address) ==
    IF address \in DOMAIN pend THEN Remove(pend, address) ELSE pend

\* An error path that returns without releasing the lock.
LockLeakedAfterError == TRUE

\* The lock when the cleanup of a failed send returns: the with block of
\* lines 177-179 has released it.
LockAfterError == FALSE

\* A wait placed inside the with block: the lock is held while waiting.
LockKeptWhileWaiting == TRUE

\* The lock when _send_osc_with_response suspends in wait_for: the with
\* block ended before the send.
LockWhileWaiting == FALSE

\* The futures still referenced: by the map or by a suspended call.
Collect(f, pend, waiting) ==
    [x \in DOMAIN f \cap (Range(pend) \cup waiting) |-> f[x]]

WaitingIds(except) == { FutId(d) : d \in { e \in Conns \ {except} : hpc[e] = "wait" } }

\* json.dumps(response), writer.write and drain.  reset: the client is gone
\* and drain raises ConnectionResetError.  A response json.dumps cannot
\* encode raises TypeError.  Both end the handler (lines 271-281).
WriteResponse(c, osc, resp, reset) ==
    IF JsonSerializable(resp)
    THEN /\ last' = [last EXCEPT ![c] = Entry(osc, <<resp>>)]
         /\ nresp' = [nresp EXCEPT ![c] = @ + 1]
         /\ hpc' = [hpc EXCEPT ![c] = IF reset THEN "closed" ELSE "read"]
    ELSE /\ last' = [last EXCEPT ![c] = Entry(osc, <<>>)]
         /\ nresp' = nresp
         /\ hpc' = [hpc EXCEPT ![c] = "closed"]

\* _handle_socket_client from a read that returns data to the next
\* suspension: the read of the next frame, or wait_for inside
\* _send_osc_with_response.
HandleSocketClient(c) ==
    /\ UNCHANGED <<daemon, replies, mcp>>
    /\ hpc[c] = "read"
    /\ inbox[c] # <<>>
    /\ \E ok \in BOOLEAN, reset \in { b \in BOOLEAN : b => ~copen[c] } :
        LET data == inbox[c]
            plan == Dispatch(data)
            fid == <<c, nread[c] + 1>>
        IN  /\ inbox' = [inbox EXCEPT ![c] = <<>>]
            /\ nread' = [nread EXCEPT ![c] = @ + 1]
            /\ UNCHANGED <<copen, nsent>>
            /\ CASE plan.kind = "raise" ->
                    /\ hpc' = [hpc EXCEPT ![c] = "closed"]
                    /\ last' = [last EXCEPT ![c] = Entry(0, <<>>)]
                    /\ UNCHANGED <<nresp, cur, pending_responses, futures, response_lock>>
                 [] plan.kind = "return" ->
                    /\ WriteResponse(c, 0, plan.resp[1], reset)
                    /\ UNCHANGED <<cur, pending_responses, futures, response_lock>>
                 [] plan.kind = "forget" ->
                    /\ WriteResponse(c, SendOscFireAndForget(plan.address, ok).osc,
                                     SendOscFireAndForget(plan.address, ok).resp, reset)
                    /\ UNCHANGED <<cur, pending_responses, futures, response_lock>>
                 [] plan.kind = "await" /\ ok ->
                    \* lines 147-158: register under the lock, send, suspend
                    /\ ~response_lock
                    /\ pending_responses' = Register(plan.address, fid)
                    /\ futures' = Collect(Put(futures, fid, NewFuture), pending_responses',
                                          WaitingIds(c) \cup {fid})
                    /\ response_lock' = LockWhileWaiting
                    /\ cur' = [cur EXCEPT ![c] = Waiting(plan.address)]
                    /\ hpc' = [hpc EXCEPT ![c] = "wait"]
                    /\ last' = [last EXCEPT ![c] = Entry(1, <<>>)]
                    /\ nresp' = nresp
                 [] plan.kind = "await" /\ ~ok ->
                    \* lines 147-154 and 175-187: register, the send raises, clean up
                    /\ ~response_lock
                    /\ pending_responses' = ErrorCleanup(Register(plan.address, fid), plan.address)
                    /\ futures' = Collect(futures, pending_responses', WaitingIds(c))
                    /\ WriteResponse(c, 0, SendErrorResp(plan.address), reset)
                    /\ response_lock' = LockAfterError
                    /\ UNCHANGED cur

\* An end of stream that also drops every pending waiter.
HandleEofClearing(c) ==
    /\ UNCHANGED <<daemon, replies, mcp>>
    /\ hpc[c] = "read"
    /\ inbox[c] = <<>>
    /\ ~copen[c]
    /\ hpc' = [hpc EXCEPT ![c] = "closed"]
    /\ pending_responses' = EmptyMap
    /\ UNCHANGED <<inbox, copen, nsent, nread, nresp, last, cur, futures, response_lock>>

\* reader.read returns b'' at end of stream: the loop ends, the writer is closed.
HandleEof(c) ==
    /\ UNCHANGED <<daemon, replies, mcp>>
    /\ hpc[c] = "read"
    /\ inbox[c] = <<>>
    /\ ~copen[c]
    /\ hpc' = [hpc EXCEPT ![c] = "closed"]
    /\ UNCHANGED <<inbox, copen, nsent, nread, nresp, last, cur, pending_responses, futures,
                   response_lock>>

(* -------------------------- datagram receiver ------------------------- *)

\* A receiver that hands a datagram whose address has no entry to a waiter
\* registered for another address.
SetResultAnyWaiter(address, args) ==
    IF pending_responses = EmptyMap THEN futures
    ELSE LET e == IF address \in DOMAIN pending_responses THEN address
                  ELSE CHOOSE b \in DOMAIN pending_responses : TRUE
         IN  IF futures[pending_responses[e]].state = "pending"
             THEN [futures EXCEPT ![pending_responses[e]] =
                      [state |-> "done", result |-> <<SuccessResp(e, args)>>]]
             ELSE futures

\* A receiver that sets the result without looking at future.done().
SetResultUnchecked(address, args) ==
    IF address \in DOMAIN pending_responses
    THEN [futures EXCEPT ![pending_responses[address]] =
              [state |-> "done", result |-> <<SuccessResp(address, args)>>]]
    ELSE futures

\* lines 120-127: the future registered for the address gets the result,
\* unless it is done (completed or cancelled) already.
SetResult(address, args) ==
    IF address \in DOMAIN pending_responses
       /\ futures[pending_responses[address]].state = "pending"
    THEN [futures EXCEPT ![pending_responses[address]] =
              [state |-> "done", result |-> <<SuccessResp(address, args)>>]]
    ELSE futures

\* A cleanup that empties the map.
MessageCleanupAll(address) == EmptyMap

\* lines 129-131: del self.pending_responses[address]
MessageCleanup(address) ==
    IF address \in DOMAIN pending_responses
    THEN Remove(pending_responses, address)
    ELSE pending_responses

\* The deadline of the wait of connection c has not passed.
BeforeDeadline(c) == ~cur[c].fired /\ cur[c].timer > 0

\* _handle_ableton_message(address, *args), called by the OSC server for
\* every datagram received.
ReceiveDatagram(address, args) ==
    /\ osc_server = "bound"
    /\ pending_responses' = MessageCleanup(address)
    /\ futures' = Collect(SetResult(address, args), pending_responses', WaitingIds(0))
    /\ cur' = [c \in Conns |->
                 IF hpc[c] = "wait" /\ cur[c].address = address
                 THEN [cur[c] EXCEPT !.seen = IF @ = "none" THEN "one" ELSE "many",
                                     !.first = IF @ = <<>> /\ BeforeDeadline(c)
                                               THEN <<args>> ELSE @]
                 ELSE cur[c]]
    /\ UNCHANGED <<inbox, copen, nsent, hpc, nread, nresp, last, response_lock>>

\* A datagram is received that is not the late reply to a command that
\* has timed out.
HandleAbletonMessage(address, args) ==
    /\ UNCHANGED <<daemon, replies, mcp>>
    /\ ReceiveDatagram(address, args)

(* ------------------------- wait_for and its timer --------------------- *)

\* A timer that runs as soon as the wait begins.
TimerDueAtOnce(c) == TRUE

\* A wait without a timeout: its timer never runs.
TimerNeverDue(c) == FALSE

\* The timer of wait_for(future, timeout=self.response_timeout) is due.
TimerDue(c) == cur[c].timer = 0

\* The timer of wait_for runs.  A pending future is cancelled; a future
\* completed in the same iteration of the loop, whose waiter has not run
\* yet, keeps its result but the waiting task is cancelled all the same
\* (Task.cancel sets _must_cancel), so the wait ends in TimeoutError.
TimerFires(c) ==
    /\ UNCHANGED <<daemon, replies, mcp>>
    /\ hpc[c] = "wait"
    /\ ~cur[c].fired
    /\ TimerDue(c)
    /\ cur' = [cur EXCEPT ![c].fired = TRUE]
    /\ futures' = IF futures[FutId(c)].state = "pending"
                  THEN [futures EXCEPT ![FutId(c)].state = "cancelled"]
                  ELSE futures
    /\ UNCHANGED <<inbox, copen, nsent, hpc, nread, nresp, last, pending_responses,
                   response_lock>>

\* A timeout branch that leaves the map as it is.
TimeoutCleanupNone(address) == pending_responses

\* lines 164-166: if address in self.pending_responses: del ...
TimeoutCleanup(address) ==
    IF address \in DOMAIN pending_responses
    THEN Remove(pending_responses, address)
    ELSE pending_responses

\* What _send_osc_with_response returns once its task runs again: the
\* result of the future (line 160), or the timeout error (lines 168-174).
Returned(c) ==
    IF cur[c].fired THEN TimeoutResp(cur[c].address)
    ELSE futures[FutId(c)].result[1]

\* A timeout branch that sends the datagram once more.
DatagramsSentWithRetry(c) == last[c].osc + (IF cur[c].fired THEN 1 ELSE 0)

\* The datagrams sent for the command of connection c when its wait ends:
\* the one of line 154; lines 158-174 send nothing.
DatagramsSent(c) == last[c].osc

\* The task suspended in wait_for runs again: its future is done, or its
\* wait was cancelled by the timer.  lines 158-174, then lines 256-258.
Resume(c) ==
    /\ hpc[c] = "wait"
    /\ futures[FutId(c)].state # "pending"
    /\ ~response_lock \/ ~cur[c].fired \/ LockWhileWaiting
    /\ \E reset \in { b \in BOOLEAN : b => ~copen[c] } :
        /\ pending_responses' = IF cur[c].fired THEN TimeoutCleanup(cur[c].address)
                                ELSE pending_responses
        /\ WriteResponse(c, DatagramsSent(c), Returned(c), reset)
    /\ futures' = Collect(futures, pending_responses', WaitingIds(c))
    /\ cur' = [cur EXCEPT ![c] = NotWaiting]
    /\ response_lock' = FALSE
    /\ UNCHANGED <<inbox, copen, nsent, nread>>

\* The wait of a command ends.
WakeUp(c) ==
    /\ UNCHANGED <<daemon, replies, mcp>>
    /\ Resume(c)

\* The clock advances by one tick: the timers of the waits still running
\* count down.
Running(c) == hpc[c] = "wait" /\ ~cur[c].fired /\ futures[FutId(c)].state = "pending"

Tick ==
    /\ UNCHANGED <<daemon, replies, mcp>>
    /\ \E c \in Conns : Running(c) /\ cur[c].timer > 0
    /\ cur' = [c \in Conns |->
                 IF Running(c) /\ cur[c].timer > 0
                 THEN [cur[c] EXCEPT !.timer = @ - 1] ELSE cur[c]]
    /\ UNCHANGED <<inbox, copen, nsent, hpc, nread, nresp, last, pending_responses, futures,
                   response_lock>>

(* --------------------------- specification ---------------------------- *)

Next ==
    \/ \E c \in Conns, f \in ClientFrames : ClientSend(c, f)
    \/ \E c \in Conns : ClientClose(c)
    \/ \E c \in Conns : HandleSocketClient(c)
    \/ \E c \in Conns : HandleEof(c)
    \/ \E a \in DgramAddrs, args \in DgramArgs : HandleAbletonMessage(a, args)
    \/ \E c \in Conns : TimerFires(c)
    \/ \E c \in Conns : WakeUp(c)
    \/ Tick

Spec == Init /\ [][Next]_vars

\* The event loop runs every callback that is ready and every timer that
\* is due, and time passes.
SpecFair ==
    /\ Spec
    /\ WF_vars(Tick)
    /\ \A c \in Conns : WF_vars(TimerFires(c))
    /\ \A c \in Conns : WF_vars(WakeUp(c))
    /\ \A c \in Conns : WF_vars(HandleSocketClient(c))
    /\ \A c \in Conns : WF_vars(HandleEof(c))

(* ------------------------------ properties ---------------------------- *)

\* Connection c is suspended in wait_for and its task is ready to run.
Ready(c) == hpc[c] = "wait" /\ futures[FutId(c)].state # "pending"

\* The addresses that are response-bearing among those exchanged.
Bearing == { a \in CmdAddrs \cup DgramAddrs : \E p \in RESPONSE_PREFIXES : StartsWith(a, p) }

\* C1. Correlation correctness: a send_message command for a
\* response-bearing address for which a datagram was handled after its
\* dispatch and before its deadline returns 'success' with the argument
\* list of that datagram, whatever the other connections do.
CorrelationCorrectness ==
    \A c \in Conns :
        (Ready(c) /\ cur[c].first # <<>>)
            => Returned(c) = SuccessResp(cur[c].address, cur[c].first[1])

\* The futures connection c has created so far.
Created(c) == { <<c, k>> : k \in 1..nread[c] }

\* C2. Timeout property: a send_message command for a response-bearing
\* address that waits and for whose address no datagram is handled returns
\* the timeout error, not before response_timeout has elapsed since the
\* wait began; it does return; and once it has returned the map holds no
\* future it registered.
TimeoutProperty ==
    /\ [](\A c \in Conns :
            (Ready(c) /\ cur[c].seen = "none")
                => /\ cur[c].fired
                   /\ cur[c].timer = 0
                   /\ Returned(c) = TimeoutResp(cur[c].address))
    /\ [](\A c \in Conns :
            hpc[c] # "wait" => Created(c) \cap Range(pending_responses) = {})
    /\ \A c \in Conns : (hpc[c] = "wait") ~> (hpc[c] # "wait")

\* A wait during which no datagram for the address was handled has expired.
TimeoutWitness ==
    \E c \in Conns :
        /\ Ready(c)
        /\ cur[c].seen = "none"
        /\ cur[c].fired
        /\ cur[c].address \notin DOMAIN pending_responses

\* Connection c reads the frames `data` in this step.
Reads(c) == hpc[c] = "read" /\ inbox[c] # <<>> /\ inbox'[c] = <<>> /\ nread'[c] = nread[c] + 1

\* The bytes read are one send_message command whose address is a
\* non-empty string that starts with none of the response-bearing prefixes.
IsFireAndForget(data) ==
    /\ Len(data) = 1
    /\ data[1].text = "object"
    /\ data[1].command = "send_message"
    /\ data[1].atype = "str"
    /\ data[1].address # <<>>
    /\ ~ \E p \in RESPONSE_PREFIXES : StartsWith(data[1].address, p)

\* C3, as stated. Fire-and-forget: a send_message command whose address
\* matches none of the response-bearing prefixes sends one outbound
\* datagram and returns 'sent', without waiting and without changing the
\* pending-response map.
FireAndForgetAlwaysSent ==
    [][\A c \in Conns :
         (Reads(c) /\ IsFireAndForget(inbox[c]))
             => /\ last'[c] = Entry(1, <<SentResp(inbox[c][1].address)>>)
                /\ hpc'[c] # "wait"
                /\ pending_responses' = pending_responses]_vars

\* C3, amended. Fire-and-forget: such a command sends one outbound
\* datagram and returns 'sent', or, when osc_client.send_message raises,
\* sends none and returns the 'error' envelope of the send failure; in both
\* cases it does not wait, and the pending-response map, the futures and
\* the waits of the other commands are unchanged.
FireAndForgetProperty ==
    [][\A c \in Conns :
         (Reads(c) /\ IsFireAndForget(inbox[c]))
             => /\ \/ last'[c] = Entry(1, <<SentResp(inbox[c][1].address)>>)
                   \/ last'[c] = Entry(0, <<SendErrorResp(inbox[c][1].address)>>)
                /\ nresp'[c] = nresp[c] + 1
                /\ hpc'[c] # "wait"
                /\ pending_responses' = pending_responses
                /\ futures' = futures
                /\ cur' = cur]_vars

\* A fire-and-forget command was acknowledged while another connection's
\* command is registered and waiting.
FireAndForgetWitness ==
    /\ last[1] = Entry(1, <<SentResp(AddrStop)>>)
    /\ hpc[1] = "read"
    /\ \E c \in Conns : hpc[c] = "wait" /\ FutId(c) \in Range(pending_responses)

\* The step handles a datagram for address a, or is the dispatch, the
\* failed send, the expiry or the return of a command for address a.
StepFor(a) ==
    \/ \E args \in DgramArgs : HandleAbletonMessage(a, args)
    \/ \E c \in Conns : cur[c].address = a /\ (TimerFires(c) \/ WakeUp(c))
    \/ \E c \in Conns : HandleSocketClient(c) /\ Dispatch(inbox[c]).address = a

\* The map entry for address b and the waits and futures of the commands
\* waiting for b are the same after the step.
Untouched(b) ==
    /\ (b \in DOMAIN pending_responses) = (b \in DOMAIN pending_responses')
    /\ b \in DOMAIN pending_responses => pending_responses'[b] = pending_responses[b]
    /\ \A c \in Conns :
          (hpc[c] = "wait" /\ cur[c].address = b)
              => /\ hpc'[c] = "wait"
                 /\ cur'[c] = cur[c]
                 /\ futures'[FutId(c)] = futures[FutId(c)]

\* C4. Non-interference: a datagram for an address A, and the timeout, the
\* return or the failed send of a command for A, leave the map entry and
\* the waiter of every command pending on another address B as they were.
NonInterference ==
    [][\A a \in Bearing : StepFor(a) => \A b \in Bearing \ {a} : Untouched(b)]_vars

\* Two commands wait on distinct addresses; the one was resolved by its
\* datagram, the other is still registered and pending.
NonInterferenceWitness ==
    \E c, d \in Conns :
        /\ hpc[c] = "wait" /\ hpc[d] = "wait"
        /\ cur[c].address # cur[d].address
        /\ futures[FutId(c)].state = "done"
        /\ cur[d].address \in DOMAIN pending_responses
        /\ pending_responses[cur[d].address] = FutId(d)
        /\ futures[FutId(d)].state = "pending"
        /\ cur[d].seen = "none"

\* C5. Timeout isolation: the return of a command whose wait expired
\* removes or cancels no waiter registered by another command that is
\* still pending.
TimeoutIsolation ==
    [][\A c \in Conns :
         (hpc[c] = "wait" /\ cur[c].fired /\ hpc'[c] # "wait")
             => \A d \in Conns \ {c} :
                   (hpc[d] = "wait" /\ FutId(d) \in Range(pending_responses))
                       => /\ FutId(d) \in Range(pending_responses')
                          /\ futures'[FutId(d)] = futures[FutId(d)]]_vars

\* C6. No silent hang: every frame the daemon has read on a connection
\* whose client is still connected, and whose processing has ended, has
\* been answered with a response envelope on that connection.
NoSilentHang ==
    \A c \in Conns :
        (copen[c] /\ hpc[c] # "wait") => nresp[c] = nread[c]

\* C7. Per-connection ordering: the daemon writes exactly one response per
\* command it reads, the response of a command before it reads the next
\* one: the responses written are as many as the commands read, less the
\* one in progress.
OneResponsePerCommand ==
    \A c \in Conns :
        nresp[c] = nread[c] - (IF hpc[c] = "wait" THEN 1 ELSE 0)

\* The part of C7 that the code keeps: a read happens only when every
\* earlier read but for those that ended the handler has its response.
ReadsAfterWrite ==
    [][\A c \in Conns : nread'[c] # nread[c] => (hpc[c] = "read" /\ nresp[c] = nread[c])]_vars

\* The frames read are a command that needs nothing of the wait of
\* connection c: ping, get_status, a fire-and-forget send_message, or a
\* send_message for another response-bearing address.
IndependentOf(c, data) ==
    /\ Decode(data) = "ok"
    /\ data[1].text = "object"
    /\ \/ data[1].command \in {"ping", "get_status"}
       \/ /\ data[1].command = "send_message"
          /\ data[1].atype = "str"
          /\ data[1].address # <<>>
          /\ data[1].address # cur[c].address

\* C8. Connection independence: while the command of one connection is
\* suspended awaiting its reply, a command that arrived on another
\* connection can be read and processed at once: it is answered, or, when
\* it is a correlated command on another address, registered and sent, and
\* the wait of the first connection is left as it was.
ConnectionIndependence ==
    \A c, d \in Conns :
        (c # d /\ hpc[c] = "wait" /\ hpc[d] = "read" /\ inbox[d] # <<>>
            /\ IndependentOf(c, inbox[d]))
        => ENABLED (/\ HandleSocketClient(d)
                    /\ hpc'[c] = "wait"
                    /\ cur'[c] = cur[c]
                    /\ futures'[FutId(c)] = futures[FutId(c)]
                    /\ \/ nresp'[d] = nresp[d] + 1
                       \/ hpc'[d] = "wait" /\ FutId(d)' \in Range(pending_responses'))

\* A connection waits for its reply, its deadline not reached, while a
\* correlated command for another address is unread on another connection.
ConnectionIndependenceWitness ==
    \E c, d \in Conns :
        /\ c # d /\ hpc[c] = "wait" /\ hpc[d] = "read"
        /\ Running(c) /\ cur[c].timer = TimeoutTicks
        /\ inbox[d] # <<>> /\ IndependentOf(c, inbox[d])
        /\ inbox[d][1].address \in Bearing

\* C9. Unsolicited-datagram tolerance: a datagram whose address has no
\* entry in the map changes neither the map nor any future, connection or
\* response; and a future is completed only in the step that handles a
\* datagram for the address it is registered under, with the arguments of
\* that datagram, so a datagram dropped earlier is never delivered later.
UnsolicitedTolerance ==
    [][/\ \A a \in DgramAddrs, args \in DgramArgs :
            (a \notin DOMAIN pending_responses /\ HandleAbletonMessage(a, args))
                => /\ pending_responses' = pending_responses
                   /\ futures' = futures
                   /\ UNCHANGED <<inbox, copen, nsent, hpc, nread, nresp, last, response_lock>>
       /\ \A c \in Conns :
            (hpc[c] = "wait" /\ futures[FutId(c)].state = "pending"
                /\ hpc'[c] = "wait" /\ futures'[FutId(c)].state = "done")
                => \E args \in DgramArgs :
                      /\ HandleAbletonMessage(cur[c].address, args)
                      /\ cur[c].address \in DOMAIN pending_responses
                      /\ pending_responses[cur[c].address] = FutId(c)
                      /\ futures'[FutId(c)].result = <<SuccessResp(cur[c].address, args)>>]_vars

\* The only command ever dispatched was resolved by the first datagram for
\* its address; a second datagram for the address found no entry, and the
\* result is still the first one's.
UnsolicitedWitness ==
    \E c \in Conns :
        /\ \A d \in Conns \ {c} : nread[d] = 0
        /\ nread[c] = 1
        /\ hpc[c] = "wait"
        /\ futures[FutId(c)].state = "done"
        /\ cur[c].seen = "many"
        /\ pending_responses = EmptyMap
        /\ futures[FutId(c)].result = <<SuccessResp(cur[c].address, cur[c].first[1])>>

\* C10. Resolve exactly once: a datagram for an address that has an entry
\* removes the entry in the same step and, when the waiter is pending,
\* completes it with the arguments of the datagram; a waiter that is
\* completed or cancelled is never set again.
ResolveOnce ==
    [][/\ \A a \in DgramAddrs, args \in DgramArgs :
            (a \in DOMAIN pending_responses /\ HandleAbletonMessage(a, args))
                => /\ a \notin DOMAIN pending_responses'
                   /\ futures[pending_responses[a]].state = "pending"
                        => /\ pending_responses[a] \in DOMAIN futures'
                           /\ futures'[pending_responses[a]] =
                                [state |-> "done", result |-> <<SuccessResp(a, args)>>]
       /\ \A f \in DOMAIN futures \cap DOMAIN futures' :
            futures[f].state # "pending" => futures'[f] = futures[f]]_vars

\* A datagram came for the address of a waiter that the timer had
\* cancelled and that was still in the map: the entry is gone, the waiter
\* is still cancelled.
ResolveOnceWitness ==
    \E c \in Conns :
        /\ hpc[c] = "wait"
        /\ cur[c].fired
        /\ futures[FutId(c)].state = "cancelled"
        /\ cur[c].seen = "one"
        /\ cur[c].first = <<>>
        /\ \A d \in Conns \ {c} : nread[d] = 0
        /\ pending_responses = EmptyMap

\* The step reads one frame on connection c whose client is connected.
ReadsOne(c) == Reads(c) /\ copen[c] /\ Len(inbox[c]) = 1

\* The step answers the read of connection c with `resp`, sends `osc`
\* datagrams for it, keeps the connection open and begins no wait.
Answers(c, osc, resp) ==
    /\ last'[c] = Entry(osc, <<resp>>)
    /\ nresp'[c] = nresp[c] + 1
    /\ hpc'[c] = "read"

\* The step registers no waiter and changes no wait.
NoWaiter == pending_responses' = pending_responses /\ futures' = futures /\ cur' = cur

\* C11. Malformed input: a frame that is not JSON text, or not UTF-8, is
\* answered with an 'error' response and the connection stays open for the
\* next command.
MalformedInput ==
    [][\A c \in Conns :
         (ReadsOne(c) /\ inbox[c][1].text \in {"badjson", "badutf8"})
             => /\ nresp'[c] = nresp[c] + 1
                /\ Len(last'[c].resp) = 1
                /\ last'[c].resp[1].status = "error"
                /\ hpc'[c] = "read"]_vars

\* The part of C11 the code keeps: invalid JSON text is answered with the
\* 'Invalid JSON' error and the connection stays open.
InvalidJsonAnswered ==
    [][\A c \in Conns :
         (ReadsOne(c) /\ inbox[c][1].text = "badjson")
             => Answers(c, 0, InvalidJsonResp) /\ NoWaiter]_vars

\* C12. Protocol errors: a command of an unknown or absent kind is answered
\* with the 'error' envelope naming the kind, a send_message without an
\* address (absent, null, empty) with the 'error' envelope 'Missing OSC
\* address'; no datagram is sent, no waiter is registered, no wait is
\* changed, and the connection stays open.
ProtocolErrors ==
    [][\A c \in Conns :
         (ReadsOne(c) /\ inbox[c][1].text = "object")
             => /\ inbox[c][1].command \notin {"send_message", "get_status", "ping"}
                    => /\ Answers(c, 0, [status |-> "error", message |-> "Unknown command: ",
                                         about |-> inbox[c][1].command,
                                         address |-> <<>>, data |-> <<>>, info |-> <<>>])
                       /\ NoWaiter
                /\ (/\ inbox[c][1].command = "send_message"
                    /\ \/ inbox[c][1].atype \in {"missing", "falsy"}
                       \/ inbox[c][1].atype = "str" /\ inbox[c][1].address = <<>>)
                    => /\ Answers(c, 0, [status |-> "error", message |-> "Missing OSC address",
                                         about |-> "", address |-> <<>>, data |-> <<>>,
                                         info |-> <<>>])
                       /\ NoWaiter]_vars

\* After a first command, a send_message without address got its 'Missing
\* OSC address' on a connection still open, while another connection's
\* command is registered and waiting.
ProtocolErrorsWitness ==
    /\ nresp[1] = 2
    /\ last[1] = Entry(0, <<MissingResp>>)
    /\ hpc[1] = "read"
    /\ \E c \in Conns : hpc[c] = "wait" /\ FutId(c) \in Range(pending_responses)

\* C13. Idempotent status and ping: get_status is answered with status
\* 'ok' and the configured hosts and ports, ping with status 'ok' and
\* 'pong', the same in every state and any number of times; no datagram is
\* sent and the map, the futures and the waits are unchanged.
IdempotentStatusPing ==
    [][\A c \in Conns :
         (ReadsOne(c) /\ inbox[c][1].text = "object")
             => /\ inbox[c][1].command = "get_status"
                    => /\ Answers(c, 0, [status |-> "ok", message |-> "", about |-> "running",
                                         address |-> <<>>, data |-> <<>>,
                                         info |-> << [ableton_host |-> "127.0.0.1",
                                                       ableton_port |-> 11000,
                                                       receive_port |-> 11001,
                                                       socket_port |-> 65432] >>])
                       /\ NoWaiter
                /\ inbox[c][1].command = "ping"
                    => /\ Answers(c, 0, [status |-> "ok", message |-> "pong", about |-> "",
                                         address |-> <<>>, data |-> <<>>, info |-> <<>>])
                       /\ NoWaiter]_vars

\* The second ping or get_status in a row on a connection was answered
\* 'pong' while another connection's command is registered and waiting.
IdempotentWitness ==
    /\ nresp[1] = 2
    /\ last[1] = Entry(0, <<PongResp>>)
    /\ hpc[1] = "read"
    /\ \E c \in Conns : hpc[c] = "wait" /\ FutId(c) \in Range(pending_responses)

\* The bytes read are one send_message command whose address is a string
\* that starts with one of the response-bearing prefixes.
IsCorrelated(data) ==
    /\ Len(data) = 1
    /\ data[1].text = "object"
    /\ data[1].command = "send_message"
    /\ data[1].atype = "str"
    /\ \E p \in RESPONSE_PREFIXES : StartsWith(data[1].address, p)

\* The 'error' envelope of a send that raised.
SendFailed(address) ==
    [status |-> "error", message |-> "Error sending OSC message: ", about |-> "",
     address |-> <<address>>, data |-> <<>>, info |-> <<>>]

\* C14. Routing rule: a send_message whose address is a non-empty string
\* takes the relay-and-await path (it registers its waiter, and waits
\* unless its send raises and the entry of its address is removed) exactly
\* when the address starts with one of RESPONSE_PREFIXES, in every state;
\* any other address goes fire-and-forget: no wait, the map unchanged.
RoutingRule ==
    [][\A c \in Conns :
         LET adr == inbox[c][1].address IN
         /\ (ReadsOne(c) /\ IsCorrelated(inbox[c]))
               => \/ /\ hpc'[c] = "wait"
                     /\ adr \in DOMAIN pending_responses'
                     /\ pending_responses'[adr] = <<c, nread'[c]>>
                     /\ futures'[<<c, nread'[c]>>].state = "pending"
                     /\ last'[c] = Entry(1, <<>>)
                  \/ /\ Answers(c, 0, SendFailed(adr))
                     /\ adr \notin DOMAIN pending_responses'
         /\ (ReadsOne(c) /\ IsFireAndForget(inbox[c]))
               => /\ hpc'[c] = "read"
                  /\ pending_responses' = pending_responses
                  /\ last'[c].osc = 1 <=> last'[c].resp[1].status = "sent"]_vars

\* In one state the daemon holds a command for /live/song/get/tempo that
\* is registered and waiting and has acknowledged /live/song/stop_playing
\* as sent: the two routes, taken while the other command was there.
RoutingWitness ==
    /\ hpc[2] = "wait"
    /\ cur[2].address = AddrTempo
    /\ AddrTempo \in DOMAIN pending_responses
    /\ pending_responses[AddrTempo] = FutId(2)
    /\ last[1] = Entry(1, <<SentResp(AddrStop)>>)
    /\ nresp[1] = 2

\* C15. Send failure cleanup: a correlated command whose send raises
\* returns the 'error' envelope in the same step, and the map then holds
\* no entry for its address and none of the futures it created.
SendFailureCleanup ==
    [][\A c \in Conns :
         (ReadsOne(c) /\ IsCorrelated(inbox[c]) /\ hpc'[c] # "wait")
             => /\ Answers(c, 0, SendFailed(inbox[c][1].address))
                /\ inbox[c][1].address \notin DOMAIN pending_responses'
                /\ { <<c, k>> : k \in 1..nread'[c] } \cap Range(pending_responses') = {}
                /\ cur'[c] = NotWaiting]_vars

\* A correlated command whose send raised has returned its error and its
\* address has no entry, while a command on another address is still
\* registered and waiting.
SendFailureWitness ==
    /\ last[1] = Entry(0, <<SendErrorResp(AddrTempo)>>)
    /\ hpc[1] = "read"
    /\ AddrTempo \notin DOMAIN pending_responses
    /\ \E d \in Conns : /\ hpc[d] = "wait" /\ cur[d].address = AddrTest
                        /\ AddrTest \in DOMAIN pending_responses
                        /\ pending_responses[AddrTest] = FutId(d)

\* The future of the waiting connection c is the map's entry for its address.
Registered(c) ==
    /\ hpc[c] = "wait"
    /\ cur[c].address \in DOMAIN pending_responses
    /\ pending_responses[cur[c].address] = FutId(c)

UnderLock(site) == site \in {"register", "timeout", "error"}

\* C17. Lock discipline: every step that changes the pending-response map
\* does so in code that holds the registry lock.
LockDiscipline ==
    [][pending_responses' # pending_responses
        => \/ (\E c \in Conns : HandleSocketClient(c))
                /\ UnderLock("register") /\ UnderLock("error")
           \/ (\E c \in Conns : WakeUp(c)) /\ UnderLock("timeout")
           \/ (\E a \in DgramAddrs, args \in DgramArgs : HandleAbletonMessage(a, args))
                /\ UnderLock("receiver")]_vars

\* The part of C17 the code keeps: the lock is never held while a task is
\* suspended, so the receiver never runs while the lock is held.
LockFreeAtSuspension == response_lock = FALSE

\* The step leaves every connection but c, the map and the futures as
\* they were.
OthersUnchanged(c) ==
    /\ pending_responses' = pending_responses
    /\ futures' = futures
    /\ \A d \in Conns \ {c} :
          /\ hpc'[d] = hpc[d] /\ cur'[d] = cur[d] /\ inbox'[d] = inbox[d]
          /\ nread'[d] = nread[d] /\ nresp'[d] = nresp[d] /\ last'[d] = last[d]

\* C18. Disconnect containment: the close of a client's socket, and the
\* end of the handler at the end of stream, change nothing of the other
\* connections, of the map or of the futures; the handler of a client that
\* is gone ends, its writer closed; and whatever connections are gone or
\* closed, a connection with an unread frame is served and a connection
\* not used so far can still send its command.
DisconnectContainment ==
    /\ [][\A c \in Conns :
            /\ ClientClose(c) => (OthersUnchanged(c) /\ hpc'[c] = hpc[c])
            /\ HandleEof(c) => (OthersUnchanged(c) /\ hpc'[c] = "closed")
            /\ (~copen[c] /\ hpc[c] # "closed" /\ hpc'[c] = "closed")
                 => \A d \in Conns \ {c} : hpc'[d] = hpc[d] /\ inbox'[d] = inbox[d]]_vars
    /\ [](\A c, d \in Conns :
            (c # d /\ ~copen[c])
                => /\ (hpc[d] = "read" /\ inbox[d] # <<>>) => ENABLED HandleSocketClient(d)
                   /\ Ready(d) => ENABLED WakeUp(d)
                   /\ (copen[d] /\ hpc[d] = "read" /\ nsent[d] = 0)
                        => ENABLED (\E f \in ClientFrames : ClientSend(d, f)))
    /\ \A c \in Conns : (~copen[c]) ~> (hpc[c] = "closed")

\* The client of connection 1 is gone and its handler has ended at the end
\* of stream, every frame it read answered, while the command of another
\* connection is registered and pending.
DisconnectWitness ==
    /\ ~copen[1]
    /\ hpc[1] = "closed"
    /\ inbox[1] = <<>>
    /\ nread[1] = nresp[1]
    /\ \E d \in Conns : Registered(d) /\ futures[FutId(d)].state = "pending"

\* C19. No retry: the datagrams sent for one command are at most one; the
\* count is settled in the step that reads the command and neither the
\* timer nor the return after a timeout or a reply adds to it; a command
\* whose send raised has sent none and is answered with the 'error'
\* envelope in that same step.
NoRetry ==
    /\ [](\A c \in Conns : last[c].osc \in {0, 1})
    /\ [][\A c \in Conns :
            /\ ~Reads(c) => last'[c].osc = last[c].osc
            /\ (ReadsOne(c) /\ (IsCorrelated(inbox[c]) \/ IsFireAndForget(inbox[c])))
                 => \/ last'[c].osc = 1 /\ hpc'[c] = "wait" /\ IsCorrelated(inbox[c])
                    \/ Answers(c, 1, SentResp(inbox[c][1].address)) /\ IsFireAndForget(inbox[c])
                    \/ Answers(c, 0, SendFailed(inbox[c][1].address))
            /\ (Ready(c) /\ cur[c].fired /\ copen[c] /\ hpc'[c] # "wait")
                 => Answers(c, 1, TimeoutResp(cur[c].address))]_vars

\* A correlated command has timed out and was answered with the timeout
\* error, one datagram sent for it, and the connection reads again.
NoRetryWitness ==
    \E c \in Conns :
        /\ hpc[c] = "read"
        /\ last[c] = Entry(1, <<TimeoutResp(AddrTempo)>>)
        /\ AddrTempo \notin DOMAIN pending_responses

\* C20. Fault containment: in every state the daemon can reach, whatever
\* frames, datagrams, timeouts, send errors and disconnects came before,
\* the receiver handles any datagram, every handler with an unread frame
\* or a finished wait runs, a connected client can send its next command,
\* and a handler has ended only by a fault or a disconnect of its own
\* connection.
FaultContainment ==
    /\ \A a \in DgramAddrs, args \in DgramArgs : ENABLED HandleAbletonMessage(a, args)
    /\ \A d \in Conns :
          /\ (hpc[d] = "read" /\ inbox[d] # <<>>) => ENABLED HandleSocketClient(d)
          /\ Ready(d) => ENABLED WakeUp(d)
          /\ (copen[d] /\ hpc[d] = "read" /\ nsent[d] < Quota(d))
                => ENABLED (\E f \in ClientFrames : ClientSend(d, f))
          /\ hpc[d] = "closed" => (~copen[d] \/ nresp[d] < nread[d])

\* The handler of connection 1 has ended on a fault of its second frame,
\* its client still connected, and another connection's command, timed
\* out after a datagram came too late for it, is about to return.
FaultContainmentWitness ==
    /\ hpc[1] = "closed" /\ copen[1] /\ nread[1] = 2
    /\ \E d \in Conns \ {1} :
          /\ Ready(d) /\ cur[d].fired /\ cur[d].seen = "one" /\ cur[d].first = <<>>

(* ------------------------------ MCP side ------------------------------ *)

\* The characters of the message texts of the envelopes (the text of an
\* exception or an address that follows a colon or "to" is left out).
MessageChars(message) ==
    CASE message = "Timeout waiting for response to " ->
           <<"T","i","m","e","o","u","t"," ","w","a","i","t","i","n","g"," ","f","o","r"," ","r","e","s","p","o","n","s","e"," ","t","o"," ">>
      [] message = "Error sending OSC message: " ->
           <<"E","r","r","o","r"," ","s","e","n","d","i","n","g"," ","O","S","C"," ","m","e","s","s","a","g","e",":"," ">>
      [] message = "Missing OSC address" ->
           <<"M","i","s","s","i","n","g"," ","O","S","C"," ","a","d","d","r","e","s","s">>
      [] message = "pong" ->
           <<"p","o","n","g">>
      [] message = "Unknown command: " ->
           <<"U","n","k","n","o","w","n"," ","c","o","m","m","a","n","d",":"," ">>
      [] message = "Invalid JSON: " ->
           <<"I","n","v","a","l","i","d"," ","J","S","O","N",":"," ">>
      [] message = "Not connected to OSC daemon. Is osc_daemon.py running?" ->
           <<"N","o","t"," ","c","o","n","n","e","c","t","e","d"," ","t","o"," ","O","S","C"," ","d","a","e","m","o","n","."," ","I","s"," ","o","s","c","_","d","a","e","m","o","n",".","p","y"," ","r","u","n","n","i","n","g","?">>
      [] message = "Connection closed by daemon" ->
           <<"C","o","n","n","e","c","t","i","o","n"," ","c","l","o","s","e","d"," ","b","y"," ","d","a","e","m","o","n">>
      [] message = "Timeout waiting for response from daemon" ->
           <<"T","i","m","e","o","u","t"," ","w","a","i","t","i","n","g"," ","f","o","r"," ","r","e","s","p","o","n","s","e"," ","f","r","o","m"," ","d","a","e","m","o","n">>
      [] message = "Invalid response from daemon: " ->
           <<"I","n","v","a","l","i","d"," ","r","e","s","p","o","n","s","e"," ","f","r","o","m"," ","d","a","e","m","o","n",":"," ">>
      [] message = "Communication error: " ->
           <<"C","o","m","m","u","n","i","c","a","t","i","o","n"," ","e","r","r","o","r",":"," ">>
      [] OTHER -> <<>>

\* `w in s` of two Python strings.
Contains(s, w) ==
    \E i \in 1..(Len(s) - Len(w) + 1) : SubSeq(s, i, i + Len(w) - 1) = w

\* The 'error' envelopes AbletonClient.send_command makes up itself: not
\* connected, connection closed by the daemon, socket timeout, invalid
\* JSON in the response, socket error.
SendCommandErrors ==
    { Resp("error", m, <<>>, <<>>) :
        m \in { "Not connected to OSC daemon. Is osc_daemon.py running?",
                "Connection closed by daemon",
                "Timeout waiting for response from daemon",
                "Invalid response from daemon: ",
                "Communication error: " } }

\* A test_connection that takes every error for a silent Ableton Live.
TestConnectionAnyError(response) ==
    IF response.status = "success" THEN "responding"
    ELSE IF response.status = "error" THEN "not responding"
    ELSE "result"

\* test_connection on the response of send_osc('/live/test'): "Connection
\* successful", "Ableton Live is not responding", or the formatted result.
TestConnection(response) ==
    IF response.status = "success" THEN "responding"
    ELSE IF response.status = "error"
            /\ Contains(MessageChars(response.message), <<"T","i","m","e","o","u","t">>)
         THEN "not responding"
    ELSE "result"

\* The envelopes send_osc can hand to test_connection in this state: what
\* the daemon wrote last on a connection, or an error of the client's own.
Returnable ==
    SendCommandErrors \cup { last[c].resp[1] : c \in { d \in Conns : last[d].resp # <<>> } }

\* The timeout and the send failure of a correlated command are reported
\* with different messages, the first only after its datagram was sent,
\* the second only when none was.
TwoErrorForms ==
    \A c \in Conns :
        (last[c].resp # <<>> /\ last[c].resp[1].status = "error"
            /\ last[c].resp[1].address # <<>>)
        => \/ /\ last[c].osc = 1
              /\ last[c].resp[1].message = "Timeout waiting for response to "
           \/ /\ last[c].osc = 0
              /\ last[c].resp[1].message = "Error sending OSC message: "

\* C21, as stated. Distinguishable errors: the timeout and the send
\* failure have different message forms, and test_connection reports that
\* Ableton Live is not responding exactly for the envelope 'Timeout
\* waiting for response to <address>'.
DistinguishableErrors ==
    /\ TwoErrorForms
    /\ \A r \in Returnable :
          TestConnection(r) = "not responding"
              <=> (r.status = "error" /\ r.message = "Timeout waiting for response to ")

\* C21, amended. The timeout and the send failure have different message
\* forms; test_connection reports that Ableton Live is not responding for
\* the daemon's 'Timeout waiting for response to <address>' and also for
\* the client's own 'Timeout waiting for response from daemon', and for no
\* other envelope, the send failure included.
DistinguishableErrorsAmended ==
    /\ TwoErrorForms
    /\ \A r \in Returnable :
          TestConnection(r) = "not responding"
              <=> (r.status = "error"
                     /\ r.message \in { "Timeout waiting for response to ",
                                        "Timeout waiting for response from daemon" })

\* The daemon has answered a /live/test command with the timeout error and
\* another command with the send failure: test_connection tells them apart.
DistinguishableWitness ==
    \E c, d \in Conns :
        /\ last[c] = Entry(1, <<TimeoutResp(AddrTest)>>)
        /\ TestConnection(last[c].resp[1]) = "not responding"
        /\ last[d].resp # <<>>
        /\ last[d].resp[1].message = "Error sending OSC message: "
        /\ TestConnection(last[d].resp[1]) = "result"

(* ------------------------- start, stop and exit ------------------------ *)

\* The state after AbletonOSCDaemon(...): nothing is bound and no client
\* is connected.
InitStart ==
    /\ inbox = [c \in Conns |-> <<>>]
    /\ copen = [c \in Conns |-> TRUE]
    /\ nsent = [c \in Conns |-> 0]
    /\ hpc = [c \in Conns |-> "none"]
    /\ nread = [c \in Conns |-> 0]
    /\ nresp = [c \in Conns |-> 0]
    /\ last = [c \in Conns |-> Entry(0, <<>>)]
    /\ cur = [c \in Conns |-> NotWaiting]
    /\ pending_responses = EmptyMap
    /\ futures = EmptyMap
    /\ response_lock = FALSE
    /\ dpc = "new"
    /\ osc_server = "none"
    /\ tcp_server = "none"
    /\ stale = {}
    /\ late = {}
    /\ ableton_client = NewClient
    /\ link = NoLink

\* A start() that logs the failure of the receive endpoint and goes on.
AfterOscFailureContinue == "starting"

\* Where start() is after create_serve_endpoint raised: lines 351-353 log
\* and re-raise, start() ends.
AfterOscFailure == "failed"

\* start(), lines 344-353: the datagram receive endpoint is created; ok:
\* the receive port could be bound.
StartOscServer(ok) ==
    /\ dpc = "new"
    /\ osc_server' = IF ok THEN "bound" ELSE "failed"
    /\ dpc' = IF ok THEN "starting" ELSE AfterOscFailure
    /\ UNCHANGED <<inbox, copen, nsent, hpc, nread, nresp, last, cur, pending_responses,
                   futures, response_lock, tcp_server, replies, mcp>>

\* A start() that starts the listener first.
ListenerStartsAtNew == "new"

\* Where start() is when it starts the listener: after lines 344-353 have
\* created the receive endpoint.
ListenerStartsAt == "starting"

\* start(), lines 356-366: the command-channel listener is started; ok:
\* the socket port could be bound.  On failure start() re-raises; the
\* receive endpoint it created stays as it is.
StartTcpServer(ok) ==
    /\ dpc = ListenerStartsAt
    /\ tcp_server' = IF ok THEN "listening" ELSE "failed"
    /\ dpc' = IF ok THEN "serving" ELSE "failed"
    /\ UNCHANGED <<inbox, copen, nsent, hpc, nread, nresp, last, cur, pending_responses,
                   futures, response_lock, osc_server, replies, mcp>>

\* The listener accepts the connection of a client and starts
\* _handle_socket_client for it.
Accept(c) ==
    /\ tcp_server = "listening"
    /\ hpc[c] = "none"
    /\ hpc' = [hpc EXCEPT ![c] = "read"]
    /\ UNCHANGED <<inbox, copen, nsent, nread, nresp, last, cur, pending_responses, futures,
                   response_lock, daemon, replies, mcp>>

\* self.osc_server after stop(): lines 382-391 close self.tcp_server only;
\* the transport create_serve_endpoint returned is kept nowhere and is
\* never closed.
OscServerAfterStop == osc_server

\* stop(): the listener is closed; the handlers of the connections
\* accepted before go on.
Stop ==
    /\ dpc = "serving"
    /\ dpc' = "stopped"
    /\ tcp_server' = "closed"
    /\ osc_server' = OscServerAfterStop
    /\ UNCHANGED <<inbox, copen, nsent, hpc, nread, nresp, last, cur, pending_responses,
                   futures, response_lock, replies, mcp>>

\* main.signal_handler: sys.exit(0) on SIGINT or SIGTERM.  The process
\* ends: its sockets are closed by the system, its tasks and its map are
\* gone.
SignalExit ==
    /\ dpc \in {"starting", "serving", "stopped"}
    /\ dpc' = "exited"
    /\ osc_server' = "closed"
    /\ tcp_server' = "closed"
    /\ inbox' = [c \in Conns |-> <<>>]
    /\ copen' = [c \in Conns |-> FALSE]
    /\ nsent' = [c \in Conns |-> 0]
    /\ hpc' = [c \in Conns |-> "closed"]
    /\ nread' = [c \in Conns |-> 0]
    /\ nresp' = [c \in Conns |-> 0]
    /\ last' = [c \in Conns |-> Entry(0, <<>>)]
    /\ cur' = [c \in Conns |-> NotWaiting]
    /\ pending_responses' = EmptyMap
    /\ futures' = EmptyMap
    /\ response_lock' = FALSE
    /\ UNCHANGED <<replies, mcp>>

NextLifecycle ==
    \/ \E ok \in BOOLEAN : StartOscServer(ok)
    \/ \E ok \in BOOLEAN : StartTcpServer(ok)
    \/ \E c \in Conns : Accept(c)
    \/ Stop
    \/ SignalExit
    \/ \E c \in Conns, f \in ClientFrames : ClientSend(c, f)
    \/ \E c \in Conns : ClientClose(c)
    \/ \E c \in Conns : HandleSocketClient(c)
    \/ \E c \in Conns : HandleEof(c)
    \/ \E a \in DgramAddrs, args \in DgramArgs : HandleAbletonMessage(a, args)
    \/ \E c \in Conns : TimerFires(c)
    \/ \E c \in Conns : WakeUp(c)
    \/ Tick

\* The daemon from its construction to its end.
SpecLifecycle == InitStart /\ [][NextLifecycle]_vars

\* C22. Startup failure: when the bind of the receive port or of the
\* command-channel port fails, start() ends in failure at that step and
\* stays there: the daemon is never serving, no connection is accepted and
\* no command is read; when it is the receive port that failed, the
\* listener was never started.
StartupFailure ==
    /\ []((osc_server = "failed" \/ tcp_server = "failed")
            => /\ dpc = "failed"
               /\ tcp_server # "listening"
               /\ ~ ENABLED (\E c \in Conns : Accept(c))
               /\ \A c \in Conns : hpc[c] = "none" /\ nsent[c] = 0 /\ nread[c] = 0)
    /\ [](osc_server = "failed" => tcp_server = "none")
    /\ [][/\ (StartOscServer(FALSE) \/ StartTcpServer(FALSE)) => dpc' = "failed"
          /\ dpc = "failed" => (dpc' = "failed" /\ tcp_server' = tcp_server
                                  /\ osc_server' = osc_server)]_vars

\* start() has bound the receive port and failed to bind the
\* command-channel port.
StartupFailureWitness ==
    /\ dpc = "failed"
    /\ osc_server = "bound"
    /\ tcp_server = "failed"

\* C23. Shutdown: once the daemon is stopped, by stop() or by a signal,
\* the listener is closed and accepts no connection, and the receive
\* endpoint is closed and handles no datagram.
Shutdown ==
    dpc \in {"stopped", "exited"}
        => /\ tcp_server = "closed"
           /\ ~ ENABLED (\E c \in Conns : Accept(c))
           /\ osc_server = "closed"
           /\ ~ ENABLED (\E a \in DgramAddrs, args \in DgramArgs : HandleAbletonMessage(a, args))

\* The part of C23 the code keeps: after stop() or a signal the listener
\* is closed and accepts no connection, and after a signal the receive
\* port is released with the process.
ListenerClosedAtShutdown ==
    /\ dpc \in {"stopped", "exited"}
          => (tcp_server = "closed" /\ ~ ENABLED (\E c \in Conns : Accept(c)))
    /\ dpc = "exited" => osc_server = "closed"

\* No other connection has ever had a command for the address connection
\* c waits on: each has read at most one frame, and that one, in flight or
\* ended, was not a correlated command for the address.
Alone(c) ==
    \A d \in Conns \ {c} :
        /\ nread[d] <= 1
        /\ hpc[d] = "wait" => cur[d].address # cur[c].address
        /\ last[d].resp # <<>> => last[d].resp[1].address # <<cur[c].address>>
        /\ (hpc[d] # "wait" /\ last[d].resp = <<>>) => last[d].osc = 0

TimedOut(c) == hpc[c] = "wait" /\ cur[c].fired /\ futures[FutId(c)].state = "cancelled"

\* C25. Late datagram after timeout: a waiter the timer has cancelled is
\* never completed; a datagram for its address handled before the cleanup
\* leaves it cancelled, removes the entry and raises nothing; the command
\* returns the timeout error, after which the map holds neither an entry
\* for its address nor its waiter; and no datagram changes a response
\* already written.
LateDatagram ==
    /\ [](\A c \in Conns : TimedOut(c)
            => \A args \in DgramArgs : ENABLED HandleAbletonMessage(cur[c].address, args))
    /\ [][\A c \in Conns :
            /\ (TimedOut(c) /\ hpc'[c] = "wait")
                 => /\ futures'[FutId(c)] = futures[FutId(c)]
                    /\ cur'[c].fired
            /\ \A args \in DgramArgs :
                 (TimedOut(c) /\ HandleAbletonMessage(cur[c].address, args))
                 => /\ cur[c].address \notin DOMAIN pending_responses'
                    /\ hpc' = hpc
            /\ (TimedOut(c) /\ hpc'[c] # "wait")
                 => /\ last'[c].resp \in {<<>>, <<TimeoutResp(cur[c].address)>>}
                    /\ copen[c] => last'[c] = Entry(1, <<TimeoutResp(cur[c].address)>>)
                    /\ cur[c].address \notin DOMAIN pending_responses'
                    /\ FutId(c) \notin Range(pending_responses')
                    /\ FutId(c) \notin DOMAIN futures'
            /\ \A a \in DgramAddrs, args \in DgramArgs :
                 HandleAbletonMessage(a, args) => (last' = last /\ nresp' = nresp)]_vars

\* The timer has cancelled the waiter of a command; before the cleanup two
\* datagrams for its address were handled: the first removed the entry,
\* the second found none, and the waiter is still cancelled.
LateDatagramWitness ==
    \E c \in Conns :
        /\ TimedOut(c)
        /\ cur[c].seen = "many"
        /\ cur[c].first = <<>>
        /\ cur[c].address \notin DOMAIN pending_responses

(* --------------------- the replies that come late --------------------- *)

\* The command of connection c has timed out and no datagram for its
\* address was received since its datagram was sent (line 154): the reply
\* of the remote application to it is still to come.
ReplyStillOwed(c) == cur[c].fired /\ cur[c].seen = "none"

\* The wait of a command ends; the reply to a command that ends in the
\* timeout error without one is recorded as on its way.
WakeUpOwing(c) ==
    /\ UNCHANGED <<daemon, mcp>>
    /\ Resume(c)
    /\ stale' = IF ReplyStillOwed(c) THEN stale \cup {cur[c].address} ELSE stale
    /\ late' = late \ {c}

\* The datagram received is the reply of the remote application to a
\* command that has timed out.  _handle_ableton_message sees an address and
\* arguments only (lines 106-118): it treats the datagram as any other.
HandleLateReply(address, args) ==
    /\ UNCHANGED <<daemon, mcp>>
    /\ address \in stale
    /\ ReceiveDatagram(address, args)
    /\ stale' = stale \ {address}
    /\ late' = late \cup { c \in Conns : /\ hpc[c] = "wait"
                                         /\ futures[FutId(c)].state = "pending"
                                         /\ futures'[FutId(c)].state = "done" }

NextAttribution ==
    \/ \E c \in Conns, f \in ClientFrames : ClientSend(c, f)
    \/ \E c \in Conns : ClientClose(c)
    \/ \E c \in Conns : HandleSocketClient(c)
    \/ \E c \in Conns : HandleEof(c)
    \/ \E a \in DgramAddrs, args \in DgramArgs : HandleAbletonMessage(a, args)
    \/ \E a \in DgramAddrs, args \in DgramArgs : HandleLateReply(a, args)
    \/ \E c \in Conns : TimerFires(c)
    \/ \E c \in Conns : WakeUpOwing(c)
    \/ Tick

\* The daemon serving, with the record of the late replies.
SpecAttribution == Init /\ [][NextAttribution]_vars

\* C26. Reply attribution: a correlated command that returns 'success'
\* returns the reply to its own datagram, never the reply the remote
\* application produced for an earlier command on the same address that
\* had timed out.
ReplyAttribution ==
    \A c \in Conns :
        (Ready(c) /\ Returned(c).status = "success") => c \notin late

\* C27. Non-blocking receiver: the registry lock is held in no state in
\* which a task is suspended, so in every state, whatever commands are
\* waiting, the receiver can handle a datagram for any address at once; it
\* does so in one step that neither takes the lock nor resumes or waits
\* for any command task.
NonBlockingReceiver ==
    /\ [](response_lock = FALSE)
    /\ [](\A a \in DgramAddrs, args \in DgramArgs : ENABLED HandleAbletonMessage(a, args))
    /\ [][\A a \in DgramAddrs, args \in DgramArgs :
            HandleAbletonMessage(a, args)
            => /\ response_lock' = response_lock
               /\ hpc' = hpc
               /\ nresp' = nresp]_vars

\* Two commands are waiting, one of them still without its reply, and the
\* receiver has handled two datagrams in a row for the address of the
\* other, whose task has not run in between.
NonBlockingReceiverWitness ==
    \E c, d \in Conns :
        /\ c # d
        /\ hpc[c] = "wait" /\ hpc[d] = "wait"
        /\ cur[c].seen = "many"
        /\ futures[FutId(c)].state = "done"
        /\ futures[FutId(d)].state = "pending"
        /\ ~response_lock

\* The client of connection c is gone while its command awaits its reply.
Abandoned(c) == hpc[c] = "wait" /\ ~copen[c]

\* C28. Abandoned wait: the close of a client's socket leaves the wait of
\* its command as it was; a matching datagram can still complete the
\* waiter; the wait does end, by a datagram or by its own timer; once it
\* has ended the map holds no future of the command; and the end of the
\* handler, its write failed or its next read at the end of stream,
\* changes nothing of the handlers, the waits and the futures of the other
\* connections.
AbandonedWait ==
    /\ [][\A c \in Conns :
            /\ (ClientClose(c) /\ hpc[c] = "wait")
                 => /\ hpc'[c] = "wait"
                    /\ cur'[c] = cur[c]
                    /\ futures' = futures
                    /\ pending_responses' = pending_responses
            /\ (Abandoned(c) /\ hpc'[c] # "wait")
                 => /\ cur[c].fired \/ futures[FutId(c)].state = "done"
                    /\ FutId(c) \notin Range(pending_responses')
                    /\ cur[c].fired => cur[c].address \notin DOMAIN pending_responses'
                    /\ hpc'[c] \in {"closed", "read"}
                    /\ \A d \in Conns \ {c} :
                          /\ hpc'[d] = hpc[d] /\ cur'[d] = cur[d] /\ inbox'[d] = inbox[d]
                          /\ nread'[d] = nread[d] /\ nresp'[d] = nresp[d]
                          /\ last'[d] = last[d]
                          /\ hpc[d] = "wait" => futures'[FutId(d)] = futures[FutId(d)]]_vars
    /\ [](\A c \in Conns :
            (Abandoned(c) /\ Registered(c) /\ futures[FutId(c)].state = "pending")
                => \A args \in DgramArgs :
                      ENABLED (/\ HandleAbletonMessage(cur[c].address, args)
                               /\ futures'[FutId(c)].state = "done"
                               /\ cur[c].address \notin DOMAIN pending_responses'))
    /\ \A c \in Conns : Abandoned(c) ~> (hpc[c] = "closed")

\* The client of a connection went while its command was waiting; the
\* timer of the wait has run since, the task has not run yet, and the
\* command of another connection is still waiting for its reply.
AbandonedWaitWitness ==
    \E c, d \in Conns :
        /\ c # d
        /\ ~copen[c]
        /\ TimedOut(c)
        /\ hpc[d] = "wait"
        /\ futures[FutId(d)].state = "pending"

\* The step processes a correlated command of another connection for the
\* address the command of connection c is waiting on: its registration
\* (lines 147-150) replaces the entry of c.
ReplacedInStep(c) ==
    \E d \in Conns \ {c} :
        /\ Reads(d)
        /\ IsCorrelated(inbox[d])
        /\ inbox[d][1].address = cur[c].address

\* C29. Register before send: the step that sends the datagram of a
\* correlated command leaves its waiter registered, and the waiter stays
\* registered for as long as the command has neither finished (its future
\* is pending and its task suspended) nor been replaced: in every such
\* state a reply for the address finds it.
RegisterBeforeSend ==
    [][\A c \in Conns :
          /\ (hpc[c] = "read" /\ hpc'[c] = "wait")
               => (Registered(c)' /\ futures'[FutId(c)'].state = "pending" /\ last'[c].osc = 1)
          /\ (/\ Registered(c)
              /\ futures[FutId(c)].state = "pending"
              /\ hpc'[c] = "wait"
              /\ futures'[FutId(c)].state = "pending"
              /\ ~ReplacedInStep(c))
               => Registered(c)']_vars

\* A correlated command for the address is in flight: its task is inside
\* _send_osc_with_response, suspended in wait_for.
InFlight(address) == \E c \in Conns : hpc[c] = "wait" /\ cur[c].address = address

\* C30. No leaked registry entries: every address in the map is the
\* address of a correlated command in flight, and every future in the map
\* is the future of such a command; when no correlated command is in
\* flight the map is empty.
NoLeakedEntries ==
    /\ \A a \in DOMAIN pending_responses :
          /\ InFlight(a)
          /\ \E c \in Conns : Registered(c) /\ cur[c].address = a
    /\ (\A c \in Conns : hpc[c] # "wait") => pending_responses = EmptyMap

\* Every command was read and none is in flight, after a registration that
\* was replaced, a reply, a timeout and the disconnect of a client: the
\* general connection has had a timeout answered and is closed, and the
\* other connection has had a 'success'.
NoLeakedEntriesWitness ==
    /\ \A c \in Conns : hpc[c] # "wait"
    /\ pending_responses = EmptyMap
    /\ ~copen[1] /\ hpc[1] = "closed"
    /\ nread[1] = MaxCmds
    /\ \E a \in Bearing : last[1].resp = <<TimeoutResp(a)>>
    /\ \E d \in Conns \ {1} : nresp[d] = 1 /\ last[d].resp # <<>> /\ last[d].resp[1].status = "success"

\* The returns of _send_osc_with_response(address, args): 'success' with
\* the arguments of a datagram (line 160), the timeout error (lines
\* 168-174), the error of a send that raised (lines 181-187).
Outcomes(address) ==
    { SuccessResp(address, args) : args \in DgramArgs }
        \cup {TimeoutResp(address), SendFailed(address)}

\* C31. Every correlated command terminates: the step that reads a
\* correlated command either returns the error of a failed send or begins
\* its wait; a wait that has ended returns 'success' when a datagram
\* completed its future and the timer has not run, and the timeout error
\* when the timer has run, and nothing else; and every wait does end,
\* whether or not the map still holds the command's future.
CorrelatedTerminates ==
    /\ [][\A c \in Conns :
            (Reads(c) /\ IsCorrelated(inbox[c]))
                => \/ hpc'[c] = "wait" /\ last'[c] = Entry(1, <<>>)
                   \/ hpc'[c] # "wait" /\ last'[c] = Entry(0, <<SendFailed(inbox[c][1].address)>>)]_vars
    /\ [](\A c \in Conns :
            Ready(c)
                => /\ Returned(c) \in Outcomes(cur[c].address) \ {SendFailed(cur[c].address)}
                   /\ Returned(c).status = "success"
                        <=> (~cur[c].fired /\ futures[FutId(c)].state = "done")
                   /\ Returned(c) = TimeoutResp(cur[c].address) <=> cur[c].fired)
    /\ \A c \in Conns : (hpc[c] = "wait") ~> (hpc[c] \in {"read", "closed"})

\* The future of a waiting command is pending and no longer in the map,
\* though no datagram for its address was handled: the cleanup of another
\* command removed the entry.  Its timer has not run yet.
CorrelatedTerminatesWitness ==
    \E c \in Conns :
        /\ hpc[c] = "wait"
        /\ futures[FutId(c)].state = "pending"
        /\ cur[c].seen = "none"
        /\ cur[c].address \notin DOMAIN pending_responses

\* The bytes read are one frame of valid JSON that is not an object, or
\* one send_message object whose address is not a string.
WronglyShaped(data) ==
    /\ Len(data) = 1
    /\ \/ data[1].text = "nonobject"
       \/ /\ data[1].text = "object"
          /\ data[1].command = "send_message"
          /\ data[1].atype \in {"falsy", "truthy"}

\* C32. Well-formed but wrongly shaped commands: a frame that is valid
\* JSON but no object, or a send_message whose address is no string, read
\* from a client that is connected, is answered with an 'error' envelope
\* and the connection stays open.
WronglyShapedAnswered ==
    [][\A c \in Conns :
          (ReadsOne(c) /\ WronglyShaped(inbox[c]))
              => /\ hpc'[c] = "read"
                 /\ nresp'[c] = nresp[c] + 1
                 /\ last'[c].resp # <<>>
                 /\ last'[c].resp[1].status = "error"]_vars

\* Every frame among the bytes read is a ping or a get_status command.
AllAnsweredAtOnce(data) ==
    \A i \in 1..Len(data) :
        data[i].text = "object" /\ data[i].command \in {"ping", "get_status"}

\* C33. Stream framing: the step that reads the bytes the client wrote as
\* ping and get_status commands, one or several of them in one read, writes
\* as many responses as there are commands among them.
StreamFraming ==
    [][\A c \in Conns :
          (Reads(c) /\ copen[c] /\ AllAnsweredAtOnce(inbox[c]))
              => nresp'[c] = nresp[c] + Len(inbox[c])]_vars

\* C34. Startup order: the listener is started only once the receive
\* endpoint is bound; whenever the listener is listening, or the handler of
\* a connection can read a command or waits for a reply, the receive
\* endpoint is bound, and the receiver can handle the reply of every
\* waiting command.
StartupOrder ==
    /\ [](/\ tcp_server = "listening" => osc_server = "bound"
          /\ \A c \in Conns :
                /\ hpc[c] \in {"read", "wait"} => osc_server = "bound"
                /\ hpc[c] = "wait"
                     => \A args \in DgramArgs : ENABLED HandleAbletonMessage(cur[c].address, args))
    /\ [][(tcp_server # "listening" /\ tcp_server' = "listening")
            => (osc_server = "bound" /\ osc_server' = "bound")]_vars

\* The daemon was started and serves; the command of an accepted
\* connection is registered and waits for its reply, the receive endpoint
\* bound.
StartupOrderWitness ==
    /\ dpc = "serving"
    /\ tcp_server = "listening"
    /\ osc_server = "bound"
    /\ \E c \in Conns : Registered(c) /\ futures[FutId(c)].state = "pending"

(* ------------------- AbletonClient (mcp_ableton_server.py) ------------------- *)

\* The daemon's own state, which the steps of the client leave alone.
server ==
    <<inbox, copen, nsent, hpc, nread, nresp, last, cur, pending_responses, futures,
      response_lock, daemon, replies>>

\* A client that never reconnects.
NeedsConnectNever == FALSE

\* _ensure_connected, line 93: `if not self.connected or not self.sock`.
NeedsConnect == ~ableton_client.connected \/ ableton_client.sock = 0

\* A return of send_command: the daemon's response to the requests `of`
\* ("response"), or an envelope send_command made itself.
Return(kind, of) == [kind |-> kind, of |-> of]

\* send_command from `async with self._lock` to its blocking recv, or to
\* its return when it sends nothing.  The code holds no await inside the
\* lock, so the calls run one after the other.  ok: the socket call made
\* (connect of line 70, else sendall of line 122) does not raise.
SendCommand(ok) ==
    /\ UNCHANGED server
    /\ ableton_client.pc = "idle"
    /\ ableton_client.call < MaxCalls
    /\ LET k == ableton_client.call + 1 IN
        IF NeedsConnect
        THEN IF ok
             THEN \* connect(): a new socket; the request is sent on it
                  /\ ableton_client' = [ableton_client EXCEPT
                        !.sock = ableton_client.socks + 1, !.socks = @ + 1,
                        !.connected = TRUE, !.pc = "recv", !.call = k, !.ret = NoReturn]
                  /\ link' = [to_daemon |-> <<k>>, from_daemon |-> <<>>, open |-> TRUE]
             ELSE \* lines 74-78, then lines 109-113
                  /\ ableton_client' = [ableton_client EXCEPT
                        !.sock = 0, !.connected = FALSE, !.call = k,
                        !.ret = Return("notconnected", <<>>)]
                  /\ link' = NoLink
        ELSE IF ok
             THEN \* lines 120-125: sendall, then recv blocks
                  /\ ableton_client' = [ableton_client EXCEPT
                        !.pc = "recv", !.call = k, !.ret = NoReturn]
                  /\ link' = [link EXCEPT !.to_daemon = Append(@, k)]
             ELSE \* sendall raises on a connection the daemon has closed: lines 148-154
                  /\ ~link.open
                  /\ ableton_client' = [ableton_client EXCEPT
                        !.connected = FALSE, !.call = k, !.ret = Return("commerror", <<>>)]
                  /\ link' = link

\* recv(8192) returns the bytes the daemon has written so far, and
\* json.loads parses them: one response is returned as it is, several
\* together are no JSON document (lines 125-134, 142-147).
RecvResponse ==
    /\ UNCHANGED server
    /\ ableton_client.pc = "recv"
    /\ link.from_daemon # <<>>
    /\ ableton_client' = [ableton_client EXCEPT
          !.pc = "idle",
          !.ret = IF Len(link.from_daemon) = 1
                  THEN Return("response", link.from_daemon[1])
                  ELSE Return("invalid", <<>>)]
    /\ link' = [link EXCEPT !.from_daemon = <<>>]

\* recv on a connection the daemon has closed, nothing left to read: it
\* returns b'' (lines 126-131), or raises ConnectionResetError (lines
\* 148-154) when reset.
RecvClosed(reset) ==
    /\ UNCHANGED server
    /\ ableton_client.pc = "recv"
    /\ link.from_daemon = <<>>
    /\ ~link.open
    /\ ableton_client' = [ableton_client EXCEPT
          !.pc = "idle", !.connected = FALSE,
          !.ret = Return(IF reset THEN "commerror" ELSE "closed", <<>>)]
    /\ link' = link

\* recv raises socket.timeout after self.timeout seconds without a byte
\* (lines 136-141): self.connected and self.sock stay as they are.
RecvTimeout ==
    /\ UNCHANGED server
    /\ ableton_client.pc = "recv"
    /\ link.from_daemon = <<>>
    /\ link.open
    /\ ableton_client' = [ableton_client EXCEPT !.pc = "idle", !.ret = Return("timeout", <<>>)]
    /\ link' = link

\* The daemon's handler of the connection: one reader.read(4096) takes the
\* requests written so far and one response is written for that read
\* (osc_daemon.py, lines 243-258 and 260-267).
DaemonAnswer ==
    /\ UNCHANGED server
    /\ link.open
    /\ link.to_daemon # <<>>
    /\ link' = [link EXCEPT !.to_daemon = <<>>, !.from_daemon = Append(@, link.to_daemon)]
    /\ ableton_client' = ableton_client

\* The daemon's handler ends and closes the connection (osc_daemon.py,
\* lines 269-281), or the daemon exits.
DaemonClose ==
    /\ UNCHANGED server
    /\ link.open
    /\ link' = [link EXCEPT !.to_daemon = <<>>, !.open = FALSE]
    /\ ableton_client' = ableton_client

NextClient ==
    \/ \E ok \in BOOLEAN : SendCommand(ok)
    \/ RecvResponse
    \/ \E reset \in BOOLEAN : RecvClosed(reset)
    \/ RecvTimeout
    \/ DaemonAnswer
    \/ DaemonClose

\* The AbletonClient of the MCP server and the daemon's side of its
\* connection.
SpecClient == Init /\ [][NextClient]_vars

\* C35. Client request/response pairing: at most one request is written
\* and unanswered on the client's socket at any time, and every response
\* of the daemon that a call of send_command returns is the response to
\* the request of that call.
RequestResponsePairing ==
    /\ Len(link.to_daemon) + Len(link.from_daemon) <= 1
    /\ ableton_client.ret.kind = "response" => ableton_client.ret.of = <<ableton_client.call>>

\* C36. Client reconnection: a call that finds the connection closed by
\* the daemon, or a socket error, leaves the client marked disconnected;
\* the next call of a disconnected client connects first: when that fails
\* it returns the 'Not connected' envelope, the client has no socket and
\* nothing is sent; when it succeeds the request is written on the new
\* socket, the only request on it, and the call waits for its response.
Reconnection ==
    [][/\ (ableton_client' # ableton_client
             /\ ableton_client'.ret.kind \in {"closed", "commerror"})
            => ~ableton_client'.connected
       /\ (ableton_client'.call = ableton_client.call + 1 /\ ~ableton_client.connected)
            => \/ /\ ableton_client'.ret = Return("notconnected", <<>>)
                  /\ ableton_client'.pc = "idle"
                  /\ ~ableton_client'.connected
                  /\ ableton_client'.sock = 0
                  /\ link' = NoLink
               \/ /\ ableton_client'.connected
                  /\ ableton_client'.sock = ableton_client.socks + 1
                  /\ ableton_client'.sock # ableton_client.sock
                  /\ ableton_client'.pc = "recv"
                  /\ link' = [to_daemon |-> <<ableton_client'.call>>,
                              from_daemon |-> <<>>, open |-> TRUE]]_vars

\* The latest call found the client disconnected after the daemon had
\* closed its first connection, connected again and wrote its request on
\* the second socket, where it waits for the response.
ReconnectionWitness ==
    /\ ableton_client.call >= 2
    /\ ableton_client.sock = 2
    /\ ableton_client.connected
    /\ ableton_client.pc = "recv"
    /\ link = [to_daemon |-> <<ableton_client.call>>, from_daemon |-> <<>>, open |-> TRUE]

====
